---- MODULE Spec2Model ----
(***************************************************************************)
(* cargo-wtf/assemble: a dependency-injection container.                   *)
(*                                                                         *)
(* src/src/assemble.ts holds two definitions of the container and of the   *)
(* class decorator: lines 45-154 (assemble accepts a bare class, get has   *)
(* no fallback) and lines 200-312 (get registers an annotated class on the *)
(* fly, assemble has no bare-class branch).  The variable impl says which  *)
(* of the two a run executes; everything else of get is the same text in   *)
(* both.                                                                   *)
(*                                                                         *)
(* A call of Factory.get is one action: the recursion get -> map -> get is *)
(* the RECURSIVE operator get, which threads the container (registry,      *)
(* singleton cache, object identities) through the nested calls and logs   *)
(* every nested call, constructor invocation, function invocation, return  *)
(* and throw.                                                              *)
(***************************************************************************)
EXTENDS Integers, Sequences, FiniteSets, TLC

\* ---------------------------------------------------------------- bounds
MaxReg == 3      \* registry entries in a run
MaxInst == 3     \* objects constructed in a run
MaxDepth == 5    \* nested get frames the call stack holds (RangeError beyond)

\* ------------------------------------------------------------ the inputs
Tokens == {"t"}
Classes == {"A", "B"}
Functions == {"f"}
Injectable == Tokens \cup Classes \cup Functions
Values == {"v1", "v2"}

\* typeof token === "function": classes and plain functions, never strings
IsFunctionType(token) == token \in Classes \cup Functions

VARIABLES
    impl,         \* 1: the definitions of lines 45-154, 2: those of lines 200-312
    annotations,  \* class -> the annotation its definition carries
    metadata,     \* class -> what the decorator left in cls[Symbol.metadata]
    registry,     \* Factory.#registry
    singletons,   \* Factory.#singletons, undefined where the map has no key
    nextId,       \* the identity the next constructed object gets
    last,         \* the call that led to this state: arguments, outcome, log
    firstGot      \* class -> the object the first get(class) that returned returned

vars == <<impl, annotations, metadata, registry, singletons, nextId, last, firstGot>>

\* ----------------------------------------------------------- the values
\* Every run-time value is a record of one shape: a token's literal
\* ("value"), an object a constructor made ("instance", with its identity
\* id and the arguments it received), what a registered function returned
\* ("result", the application of the function to its arguments), or
\* undefined.
Undefined == [tag |-> "undefined", id |-> 0, of |-> "", args |-> << >>]
Literal(v) == [tag |-> "value", id |-> 0, of |-> v, args |-> << >>]
Instance(c, n, a) == [tag |-> "instance", id |-> n, of |-> c, args |-> a]
Result(f, a) == [tag |-> "result", id |-> 0, of |-> f, args |-> a]

\* JavaScript truthiness of a value: objects are truthy, undefined is not;
\* the literals of Values are non-empty strings.
Truthy(v) == v.tag # "undefined"

\* ------------------------------------------------- the annotation (decorator)
\* What a class definition carries: undecorated, @assemble(), or
\* @assemble({deps: [...]}).
Undecorated == [decorated |-> FALSE, hasDeps |-> FALSE, deps |-> << >>]
Annotated == [decorated |-> TRUE, hasDeps |-> FALSE, deps |-> << >>]
AnnotatedWith(d) == [decorated |-> TRUE, hasDeps |-> TRUE, deps |-> d]

\* The class definitions of a run: none is decorated, or (as in the test
\* "should return decorated class with deps") A declares [B, "t"] and B
\* carries the annotation without a deps list.
ClassDefinitions ==
    {[c \in Classes |-> Undecorated],
     [c \in Classes |-> IF c = "A" THEN AnnotatedWith(<<"B", "t">>) ELSE Annotated]}

\* cls[Symbol.metadata] after the class definition ran: whether the class
\* has a metadata object, and whether that object holds an array under
\* ASSEMBLE_METADATA_KEY.
NoMetadata == [present |-> FALSE, isArray |-> FALSE, deps |-> << >>]

\* lines 140-154: the key is written only when options.deps is an array
decorator1(annotation) ==
    IF annotation.hasDeps
    THEN [present |-> TRUE, isArray |-> TRUE, deps |-> annotation.deps]
    ELSE [present |-> TRUE, isArray |-> FALSE, deps |-> << >>]

\* lines 296-312: the key is always written, an empty list without deps
decorator2(annotation) ==
    [present |-> TRUE, isArray |-> TRUE,
     deps |-> IF annotation.hasDeps THEN annotation.deps ELSE << >>]

decorate(version, annotation) ==
    IF ~annotation.decorated THEN NoMetadata
    ELSE IF version = 1 THEN decorator1(annotation)
    ELSE decorator2(annotation)

\* ------------------------------------------------------------ the registry
\* What a caller passes to assemble.  shape is the property the object has
\* ("class", "token", "function": the three members of ToAssemble<T>, an
\* object being of exactly one); a bare class reference is typeof
\* "function" and has none of them.
ClassToAssemble(c, s, h, d) ==
    [typeof |-> "object", shape |-> "class", ref |-> c, isSingleton |-> s,
     hasDeps |-> h, dependencies |-> d, value |-> ""]
ValueToAssemble(t, v) ==
    [typeof |-> "object", shape |-> "token", ref |-> t, isSingleton |-> "absent",
     hasDeps |-> FALSE, dependencies |-> << >>, value |-> v]
FunctionToAssemble(f, h, d) ==
    [typeof |-> "object", shape |-> "function", ref |-> f, isSingleton |-> "absent",
     hasDeps |-> h, dependencies |-> d, value |-> ""]
BareClass(c) ==
    [typeof |-> "function", shape |-> "none", ref |-> c, isSingleton |-> "absent",
     hasDeps |-> FALSE, dependencies |-> << >>, value |-> ""]

\* isSingleton is "absent", "true" or "false".
\* The objects the callers pass: A on [B, "t"], a singleton by
\* isSingleton: true or not one; B on ["t"] and not a singleton, B on [A]
\* (which closes a cycle with A); "t" with either value; f on ["t"] or on
\* [B, B].  An entry without isSingleton and without dependencies comes from
\* a bare class or from the fallback of get.
ClassItems ==
    {ClassToAssemble("A", s, TRUE, <<"B", "t">>) : s \in {"true", "false"}}
      \cup {ClassToAssemble("B", "false", TRUE, <<"t">>),
            ClassToAssemble("B", "absent", TRUE, <<"A">>)}
ValueItems == {ValueToAssemble(t, v) : t \in Tokens, v \in Values}
FunctionItems ==
    {FunctionToAssemble("f", TRUE, d) : d \in {<<"t">>, <<"B", "B">>}}

\* An entry of #registry: { type: <key>, ...toAssemble }
ItemToAssemble(key, item) ==
    [type |-> key, shape |-> item.shape, ref |-> item.ref,
     isSingleton |-> item.isSingleton, hasDeps |-> item.hasDeps,
     dependencies |-> item.dependencies, value |-> item.value]

\* assembleObject refusing a key the registry already holds
assembleObjectRejectingDuplicates(reg, toAssemble) ==
    IF /\ toAssemble.shape \in {"class", "token", "function"}
       /\ \A i \in 1..Len(reg) : reg[i].type # toAssemble.ref
    THEN Append(reg, ItemToAssemble(toAssemble.ref, toAssemble))
    ELSE reg

\* lines 114-134 and 269-291: "class", then "token", then "function", each
\* pushing { type: <the key>, ...toAssemble }; anything else falls off the
\* end and nothing is pushed.
assembleObject(reg, toAssemble) ==
    IF toAssemble.shape \in {"class", "token", "function"}
    THEN Append(reg, ItemToAssemble(toAssemble.ref, toAssemble))
    ELSE reg

\* assemble1 not reading the metadata of a bare class
assemble1NoMetadata(reg, toAssemble) ==
    IF toAssemble.typeof = "function"
    THEN Append(reg, [type |-> toAssemble.ref, shape |-> "class",
                      ref |-> toAssemble.ref, isSingleton |-> "absent",
                      hasDeps |-> FALSE, dependencies |-> << >>, value |-> ""])
    ELSE assembleObject(reg, toAssemble)

\* lines 99-135, Factory.assemble of the first definition: a bare class
\* (typeof "function") is pushed with the dependencies its metadata holds
\* under the key, undefined when that is no array.
assemble1(reg, toAssemble) ==
    IF toAssemble.typeof = "function"
    THEN LET m == metadata[toAssemble.ref]
             isArray == m.present /\ m.isArray
         IN Append(reg, [type |-> toAssemble.ref, shape |-> "class",
                         ref |-> toAssemble.ref, isSingleton |-> "absent",
                         hasDeps |-> isArray,
                         dependencies |-> IF isArray THEN m.deps ELSE << >>,
                         value |-> ""])
    ELSE assembleObject(reg, toAssemble)

\* lines 269-291, Factory.assemble of the second definition
assemble2(reg, toAssemble) == assembleObject(reg, toAssemble)

\* Factory.assemble of the definition the run executes
assemble(reg, toAssemble) ==
    IF impl = 1 THEN assemble1(reg, toAssemble) ELSE assemble2(reg, toAssemble)

\* find returning the last match instead of the first
findLast(reg, token) ==
    IF \E i \in 1..Len(reg) : reg[i].type = token
    THEN CHOOSE i \in 1..Len(reg) :
            /\ reg[i].type = token
            /\ \A j \in (i + 1)..Len(reg) : reg[j].type # token
    ELSE 0

\* Array.prototype.find((item) => item.type === token): the index of the
\* first match, 0 for undefined.
find(reg, token) ==
    IF \E i \in 1..Len(reg) : reg[i].type = token
    THEN CHOOSE i \in 1..Len(reg) :
            /\ reg[i].type = token
            /\ \A j \in 1..(i - 1) : reg[j].type # token
    ELSE 0

\* ------------------------------------------------------------ Factory.get
\* token.toString(): a string is itself, a class or a function its source
\* text.
toString(token) ==
    IF token \in Tokens THEN token
    ELSE IF token \in Classes THEN "class " \o token \o " { }"
    ELSE "function " \o token \o "() { }"

errMsg(token) ==
    "Provided token: \"" \o toString(token) \o "\" is not registered for dependency injection"

RangeErrorMsg == "Maximum call stack size exceeded"

\* One line of the call log.
Event(ev, key, depth, value) == [ev |-> ev, key |-> key, depth |-> depth, value |-> value]

Log(st, ev, key, depth, value) ==
    [st EXCEPT !.log = Append(@, Event(ev, key, depth, value))]

Throw(st, status, error, token, depth) ==
    [st |-> Log(st, "throw", token, depth, Undefined), status |-> status,
     value |-> Undefined, error |-> error]

Return(st, value, token, depth) ==
    [st |-> Log(st, "return", token, depth, value), status |-> "return",
     value |-> value, error |-> ""]

\* autoAssemble with the metadata test lost: any class is assembled
autoAssembleAnyClass(st, token) ==
    IF token \in Classes
    THEN [st EXCEPT !.registry =
             Append(@, ItemToAssemble(token,
                 [typeof |-> "object", shape |-> "class", ref |-> token,
                  isSingleton |-> "absent", hasDeps |-> TRUE,
                  dependencies |-> metadata[token].deps, value |-> ""]))]
    ELSE st

\* lines 214-224, second definition only: a class whose metadata holds an
\* array under the key is assembled on the fly as { class, dependencies }.
autoAssemble(st, token) ==
    IF /\ IsFunctionType(token)
       /\ token \in Classes
       /\ metadata[token].present
       /\ metadata[token].isArray
    THEN [st EXCEPT !.registry =
             assemble2(@, ClassToAssemble(token, "absent", TRUE, metadata[token].deps))]
    ELSE st

\* lines 52-61 (first definition) and 207-231 (second definition): the
\* lookup, with the fallback where the definition has one.
lookup(st, token) ==
    IF find(st.registry, token) = 0 /\ impl = 2 THEN autoAssemble(st, token) ELSE st

\* new injectable.class(...deps): a fresh object
construct(st, cls, deps, depth) ==
    Log([st EXCEPT !.nextId = @ + 1], "new", cls, depth, Instance(cls, st.nextId, deps))

\* injectable.function(...deps)
invoke(st, fn, deps, depth) ==
    Log(st, "call", fn, depth, Result(fn, deps))

\* cached never finding an instance: the cache is written, never read
cachedNever(st, injectable) == Undefined

\* lines 234-237: the cached instance of a singleton entry, undefined for
\* an entry with isSingleton: false or a key the map does not hold
cached(st, injectable) ==
    IF injectable.isSingleton # "false"
    THEN st.singletons[injectable.type]
    ELSE Undefined

\* store with the isSingleton test lost: every instance is cached
storeAlways(st, injectable, item) ==
    [st EXCEPT !.singletons[injectable.type] = item]

\* store with the write lost: nothing is cached
storeNever(st, injectable, item) == st

\* lines 244-249: #singletons.set(injectable.type, item) unless
\* isSingleton is false
store(st, injectable, item) ==
    IF injectable.isSingleton # "false"
    THEN [st EXCEPT !.singletons[injectable.type] = item]
    ELSE st

\* injectable.dependencies ?? []
dependenciesOf(injectable) ==
    IF injectable.hasDeps THEN injectable.dependencies ELSE << >>

RECURSIVE get(_, _, _)
RECURSIVE mapGet(_, _, _, _)

\* mapGet handing the resolved values over in reverse order
mapGetReversed(st, dependencies, deps, depth) ==
    IF dependencies = << >>
    THEN [st |-> st, status |-> "return", deps |-> deps, error |-> ""]
    ELSE LET r == get(st, Head(dependencies), depth)
         IN IF r.status # "return"
            THEN [st |-> r.st, status |-> r.status, deps |-> deps, error |-> r.error]
            ELSE mapGet(r.st, Tail(dependencies), <<r.value>> \o deps, depth)

\* mapGet resolving every dependency a second time before going on
mapGetTwice(st, dependencies, deps, depth) ==
    IF dependencies = << >>
    THEN [st |-> st, status |-> "return", deps |-> deps, error |-> ""]
    ELSE LET first == get(st, Head(dependencies), depth)
             r == get(first.st, Head(dependencies), depth)
         IN IF r.status # "return"
            THEN [st |-> r.st, status |-> r.status, deps |-> deps, error |-> r.error]
            ELSE mapGet(r.st, Tail(dependencies), Append(deps, r.value), depth)

\* injectable.dependencies?.map((toInject) => this.get(toInject)) ?? []
\* left to right; a throw ends the map.
mapGet(st, dependencies, deps, depth) ==
    IF dependencies = << >>
    THEN [st |-> st, status |-> "return", deps |-> deps, error |-> ""]
    ELSE LET r == get(st, Head(dependencies), depth)
         IN IF r.status # "return"
            THEN [st |-> r.st, status |-> r.status, deps |-> deps, error |-> r.error]
            ELSE mapGet(r.st, Tail(dependencies), Append(deps, r.value), depth)

\* getClass constructing and caching although a dependency threw
getClassDespiteThrow(st, injectable, token, depth) ==
    IF Truthy(cached(st, injectable))
    THEN Return(st, cached(st, injectable), token, depth)
    ELSE LET m == mapGet(st, dependenciesOf(injectable), << >>, depth + 1)
             item == Instance(injectable.ref, m.st.nextId, m.deps)
             s2 == store(construct(m.st, injectable.ref, m.deps, depth), injectable, item)
         IN IF m.status # "return"
            THEN Throw(s2, m.status, m.error, token, depth)
            ELSE Return(s2, item, token, depth)

\* getClass with a guard against cycles: the object is made and cached
\* before its dependencies are resolved, so a nested get of the same key
\* finds it
getClassStoringEarly(st, injectable, token, depth) ==
    IF Truthy(cached(st, injectable))
    THEN Return(st, cached(st, injectable), token, depth)
    ELSE LET early == Instance(injectable.ref, st.nextId, << >>)
             m == mapGet(store(construct(st, injectable.ref, << >>, depth),
                               injectable, early),
                         dependenciesOf(injectable), << >>, depth + 1)
         IN IF m.status # "return"
            THEN Throw(m.st, m.status, m.error, token, depth)
            ELSE Return(m.st, early, token, depth)

\* lines 233-252: the class entry
getClass(st, injectable, token, depth) ==
    IF Truthy(cached(st, injectable))
    THEN Return(st, cached(st, injectable), token, depth)
    ELSE LET m == mapGet(st, dependenciesOf(injectable), << >>, depth + 1)
         IN IF m.status # "return"
            THEN Throw(m.st, m.status, m.error, token, depth)
            ELSE LET item == Instance(injectable.ref, m.st.nextId, m.deps)
                 IN Return(store(construct(m.st, injectable.ref, m.deps, depth),
                                 injectable, item),
                           item, token, depth)

\* getFunction caching its result as the class entry caches instances
getFunctionCaching(st, injectable, token, depth) ==
    IF Truthy(st.singletons[injectable.type])
    THEN Return(st, st.singletons[injectable.type], token, depth)
    ELSE LET m == mapGet(st, dependenciesOf(injectable), << >>, depth + 1)
         IN IF m.status # "return"
            THEN Throw(m.st, m.status, m.error, token, depth)
            ELSE Return([invoke(m.st, injectable.ref, m.deps, depth)
                            EXCEPT !.singletons[injectable.type] =
                                       Result(injectable.ref, m.deps)],
                        Result(injectable.ref, m.deps), token, depth)

\* lines 254-260: the function entry
getFunction(st, injectable, token, depth) ==
    LET m == mapGet(st, dependenciesOf(injectable), << >>, depth + 1)
    IN IF m.status # "return"
       THEN Throw(m.st, m.status, m.error, token, depth)
       ELSE Return(invoke(m.st, injectable.ref, m.deps, depth),
                   Result(injectable.ref, m.deps), token, depth)

\* getValue caching what it returns, as the class entry does
getValueCaching(st, injectable, token, depth) ==
    Return([st EXCEPT !.singletons[injectable.type] = Literal(injectable.value)],
           Literal(injectable.value), token, depth)

\* lines 262-264: the value entry
getValue(st, injectable, token, depth) ==
    Return(st, Literal(injectable.value), token, depth)

\* Factory.get(token), called at nesting depth `depth`.  st is the container
\* and the log; the result holds them as the call leaves them.  A call the
\* stack has no room for throws RangeError.
get(st, token, depth) ==
    IF depth > MaxDepth
    THEN Throw(st, "RangeError", RangeErrorMsg, token, depth)
    ELSE
    LET s1 == lookup(Log(st, "get", token, depth, Undefined), token)
        i == find(s1.registry, token)
    IN IF i = 0
       THEN Throw(s1, "NotRegistered", errMsg(token), token, depth)
       ELSE IF s1.registry[i].shape = "class"
       THEN getClass(s1, s1.registry[i], token, depth)
       ELSE IF s1.registry[i].shape = "function"
       THEN getFunction(s1, s1.registry[i], token, depth)
       ELSE IF s1.registry[i].shape = "token"
       THEN getValue(s1, s1.registry[i], token, depth)
       ELSE Throw(s1, "NotRegistered", errMsg(token), token, depth)

\* ------------------------------------------------------------ the actions
NoItem == BareClass("")

Call(op, token, item, r, log) ==
    [op |-> op, token |-> token, item |-> item,
     status |-> r.status, value |-> r.value, error |-> r.error, log |-> log,
     registry |-> registry, singletons |-> singletons, nextId |-> nextId]

Done == [status |-> "return", value |-> Undefined, error |-> ""]

\* The first "return" of each class in a log, for classes that had none
\* before.
RECURSIVE firstReturns(_, _)
firstReturns(got, log) ==
    IF log = << >> THEN got
    ELSE LET e == Head(log)
         IN firstReturns(IF e.ev = "return" /\ e.key \in Classes /\ ~Truthy(got[e.key])
                         THEN [got EXCEPT ![e.key] = e.value]
                         ELSE got,
                         Tail(log))

Init ==
    /\ impl \in {1, 2}
    /\ annotations \in ClassDefinitions
    /\ metadata = [c \in Classes |-> decorate(impl, annotations[c])]
    /\ registry = << >>
    /\ singletons = [k \in Injectable |-> Undefined]
    /\ nextId = 1
    /\ last = [op |-> "new", token |-> "", item |-> NoItem, status |-> "return",
               value |-> Undefined, error |-> "", log |-> << >>,
               registry |-> << >>, singletons |-> [k \in Injectable |-> Undefined],
               nextId |-> 1]
    /\ firstGot = [k \in Injectable |-> Undefined]

\* DI.assemble(toAssemble)
Assemble(toAssemble) ==
    /\ Len(registry) < MaxReg
    /\ registry' = assemble(registry, toAssemble)
    /\ last' = Call("assemble", "", toAssemble, Done, << >>)
    /\ UNCHANGED <<impl, annotations, metadata, singletons, nextId, firstGot>>

AssembleClass == \E item \in ClassItems : Assemble(item)
AssembleValue == \E item \in ValueItems : Assemble(item)
AssembleFunction == \E item \in FunctionItems : Assemble(item)
\* DI.assemble(cls): the parameter of the first definition alone admits a
\* bare class (ToAssemble<T> | Newable<T>, line 99; ToAssemble<T>, line 269).
AssembleBare == impl = 1 /\ \E c \in Classes : Assemble(BareClass(c))

\* DI.get(token)
Get(token) ==
    \E r \in {get([registry |-> registry, singletons |-> singletons,
                  nextId |-> nextId, log |-> << >>], token, 0)} :
       /\ Len(r.st.registry) <= MaxReg
       /\ r.st.nextId <= MaxInst + 1
       /\ registry' = r.st.registry
       /\ singletons' = r.st.singletons
       /\ nextId' = r.st.nextId
       /\ last' = Call("get", token, NoItem, r, r.st.log)
       /\ firstGot' = firstReturns(firstGot, r.st.log)
       /\ UNCHANGED <<impl, annotations, metadata>>

GetAny == \E token \in Injectable : Get(token)

Next ==
    \/ AssembleClass
    \/ AssembleValue
    \/ AssembleFunction
    \/ AssembleBare
    \/ GetAny

Spec == Init /\ [][Next]_vars

\* ============================================================ the claims
\* The first-registered entry of a key, found by position alone.
Registered(reg, key) == \E i \in 1..Len(reg) : reg[i].type = key

Earliest(reg, key) ==
    reg[CHOOSE i \in 1..Len(reg) :
            /\ reg[i].type = key
            /\ \A j \in 1..Len(reg) : reg[j].type = key => i <= j]

Entries(reg, key) == {i \in 1..Len(reg) : reg[i].type = key}

\* The events of the last call's log of one kind at one depth, in order.
EventsAt(ev, depth) ==
    LET Is(e) == e.ev = ev /\ e.depth = depth
    IN SelectSeq(last.log, Is)

KeysOf(events) == [i \in 1..Len(events) |-> events[i].key]
ValuesOf(events) == [i \in 1..Len(events) |-> events[i].value]

Returns == {i \in 1..Len(last.log) : last.log[i].ev = "return"}

SingletonClass(e) == e.shape = "class" /\ e.isSingleton # "false"
OwnInstanceClass(e) == e.shape = "class" /\ e.isSingleton = "false"

\* C1: when the first-registered entry of a class is a class entry whose
\* isSingleton is absent or true, every get of that class that returns,
\* direct or nested, returns the very object the first get of that class
\* that returned did, whatever assemble and get calls came in between.
C1_SingletonIdentity ==
    last.op = "get" =>
        \A i \in Returns :
            LET e == last.log[i]
            IN SingletonClass(Earliest(registry, e.key)) => e.value = firstGot[e.key]

\* C1 witness: a direct get of a default-singleton class returns an object
\* made by an earlier call, after the same key was assembled a second time.
C1_Witness ==
    /\ last.op = "get" /\ last.status = "return"
    /\ last.token \in Classes
    /\ Cardinality(Entries(last.registry, last.token)) >= 2
    /\ SingletonClass(Earliest(registry, last.token))
    /\ last.value.tag = "instance"
    /\ last.value.id < last.nextId

\* C2 as stated (for the calls that return): whenever the registry holds a
\* class entry with isSingleton: false, a get of its class returns an
\* object no earlier call made and leaves the key out of the singleton
\* cache.
C2_AnyOwnInstanceEntry ==
    (last.op = "get" /\ last.status = "return") =>
        \A i \in Entries(last.registry, last.token) :
            OwnInstanceClass(last.registry[i]) =>
                /\ last.value.tag = "instance"
                /\ last.value.id >= last.nextId
                /\ ~Truthy(singletons[last.token])

\* C2 amended: when the first-registered entry of a class has isSingleton:
\* false, every get of that class that returns, direct or nested, returns
\* an object constructed in that call and by that get, distinct from every
\* object made before; a direct get calls get for each declared dependency,
\* in order, before constructing; and the key never enters the singleton
\* cache.
C2_OwnInstance ==
    /\ \A k \in Classes :
          (Registered(registry, k) /\ OwnInstanceClass(Earliest(registry, k)))
              => ~Truthy(singletons[k])
    /\ last.op = "get" =>
          \A i \in Returns :
              LET e == last.log[i]
              IN OwnInstanceClass(Earliest(registry, e.key)) =>
                    /\ e.value.tag = "instance"
                    /\ e.value.id >= last.nextId
                    /\ \A j \in Returns \ {i} :
                          last.log[j].key = e.key
                              => last.log[j].value.id # e.value.id
    /\ (/\ last.op = "get" /\ last.status = "return"
        /\ OwnInstanceClass(Earliest(registry, last.token)))
          => /\ KeysOf(EventsAt("get", 1))
                  = dependenciesOf(Earliest(registry, last.token))
             /\ Len(EventsAt("new", 0)) = 1

\* C2 witness: the second direct get of an own-instance class with
\* dependencies returns, after an earlier one returned.
C2_Witness ==
    /\ last.op = "get" /\ last.status = "return"
    /\ last.token \in Classes
    /\ OwnInstanceClass(Earliest(registry, last.token))
    /\ Len(dependenciesOf(Earliest(registry, last.token))) = 2
    /\ Truthy(firstGot[last.token])
    /\ firstGot[last.token] # last.value

\* C3 as stated: get(token) returns the value of every registered
\* {token, value} entry of that token and changes neither the registry nor
\* the cache.
C3_AnyValueEntry ==
    last.op = "get" =>
        \A i \in Entries(last.registry, last.token) :
            last.registry[i].shape = "token" =>
                /\ last.status = "return"
                /\ last.value = Literal(last.registry[i].value)
                /\ registry = last.registry
                /\ singletons = last.singletons

\* C3 amended: get(token) returns the value of the first-registered
\* {token, value} entry of that token, every time, and leaves the registry
\* and the singleton cache unchanged.
C3_FirstValueEntry ==
    (/\ last.op = "get"
     /\ Registered(last.registry, last.token)
     /\ Earliest(last.registry, last.token).shape = "token")
        => /\ last.status = "return"
           /\ last.value = Literal(Earliest(last.registry, last.token).value)
           /\ registry = last.registry
           /\ singletons = last.singletons
           /\ nextId = last.nextId

\* C3 witness: get of a token registered twice with different values,
\* while the cache holds an instance.
C3_Witness ==
    /\ last.op = "get" /\ last.status = "return"
    /\ last.token \in Tokens
    /\ \E i, j \in Entries(last.registry, last.token) :
          last.registry[i].value # last.registry[j].value
    /\ \E k \in Classes : Truthy(last.singletons[k])
    /\ last.registry = registry

\* A value without the identities of the objects in it.
RECURSIVE Strip(_)
Strip(v) == [v EXCEPT !.id = 0, !.args = [i \in 1..Len(v.args) |-> Strip(v.args[i])]]

\* What a key stands for in a registry, read off the first-registered
\* entries alone: a token's literal, a class or function applied to what
\* its declared dependencies stand for; undefined where a key has no entry
\* or the chain is longer than n.
RECURSIVE Denote(_, _, _)
Denote(reg, key, n) ==
    IF n = 0 \/ ~Registered(reg, key) THEN Undefined
    ELSE LET e == Earliest(reg, key)
             d == IF e.hasDeps THEN e.dependencies ELSE << >>
             a == [i \in 1..Len(d) |-> Denote(reg, d[i], n - 1)]
         IN IF e.shape = "token" THEN Literal(e.value)
            ELSE IF e.shape = "class" THEN Instance(e.ref, 0, a)
            ELSE Result(e.ref, a)

Fuel == MaxDepth + 1

News == {i \in 1..Len(last.log) : last.log[i].ev = "new"}

\* C4: a get(type) that constructs a class entry with dependencies
\* [d1..dn] calls get(d1)..get(dn) in that order and passes the constructor
\* exactly the n values they returned, in that order; and every object
\* constructed in a call, at any depth, is the class applied to what its
\* dependencies stand for, down to the token values.
C4_ConstructorArguments ==
    last.op = "get" =>
        /\ Len(EventsAt("new", 0)) = 1 =>
              /\ KeysOf(EventsAt("get", 1))
                    = dependenciesOf(Earliest(registry, last.token))
              /\ EventsAt("new", 0)[1].value.args = ValuesOf(EventsAt("return", 1))
              /\ Len(EventsAt("new", 0)[1].value.args)
                    = Len(dependenciesOf(Earliest(registry, last.token)))
        /\ \A i \in News :
              Strip(last.log[i].value) = Denote(registry, last.log[i].key, Fuel)

\* C4 witness: get(A) constructs A on [B, "t"] with B constructed on ["t"]
\* in the same call: a chain of three levels.
C4_Witness ==
    /\ last.op = "get" /\ last.status = "return" /\ last.token = "A"
    /\ Len(EventsAt("new", 0)) = 1
    /\ Len(EventsAt("new", 1)) = 1
    /\ Len(last.value.args) = 2
    /\ last.value.args[1].tag = "instance"
    /\ last.value.args[1].args = <<Literal("v2")>>
    /\ last.value.args[2] = Literal("v2")

\* C5 as stated (for the calls that return): get(fn) resolves the declared
\* dependencies of every registered function entry of fn.
C5_AnyFunctionEntry ==
    (last.op = "get" /\ last.status = "return") =>
        \A i \in Entries(last.registry, last.token) :
            last.registry[i].shape = "function" =>
                KeysOf(EventsAt("get", 1)) = dependenciesOf(last.registry[i])

\* C5 amended: a function key is never in the cache; a direct get(fn) calls
\* get for the declared dependencies of the first-registered entry of fn,
\* in declaration order, up to the first that throws; when all returned it
\* invokes fn exactly once, with the returned values in that order, and
\* returns what fn returned; when one threw it does not invoke fn.
C5_FunctionReinvoked ==
    /\ \A f \in Functions : ~Truthy(singletons[f])
    /\ (/\ last.op = "get" /\ last.token \in Functions
        /\ Registered(last.registry, last.token))
          => LET e == Earliest(last.registry, last.token)
                 asked == KeysOf(EventsAt("get", 1))
                 calls == EventsAt("call", 0)
             IN /\ e.shape = "function"
                /\ Len(asked) <= Len(dependenciesOf(e))
                /\ asked = SubSeq(dependenciesOf(e), 1, Len(asked))
                /\ last.status = "return" =>
                      /\ asked = dependenciesOf(e)
                      /\ Len(calls) = 1
                      /\ calls[1].key = e.ref
                      /\ calls[1].value = Result(e.ref, ValuesOf(EventsAt("return", 1)))
                      /\ last.value = calls[1].value
                /\ last.status # "return" => Len(calls) = 0

\* C5 witness: get(f) on [B, B] returns when B is a singleton cached by an
\* earlier call: nothing was constructed, yet f was invoked.
C5_Witness ==
    /\ last.op = "get" /\ last.status = "return" /\ last.token = "f"
    /\ Truthy(last.singletons["B"])
    /\ Len(EventsAt("call", 0)) = 1
    /\ Len(EventsAt("return", 1)) = 2
    /\ Len(last.value.args) = 2
    /\ last.value.args[1].tag = "instance"
    /\ nextId = last.nextId

\* Whether cls[Symbol.metadata] holds a dependency array under the key.
HasDependencyMetadata(key) ==
    key \in Classes /\ metadata[key].present /\ metadata[key].isArray

\* C6: get(key) for a key no entry matches and that carries no annotation
\* metadata throws the not-registered error, whose message holds
\* key.toString(); it returns no value and changes nothing.
C6_NotRegistered ==
    (/\ last.op = "get"
     /\ ~Registered(last.registry, last.token)
     /\ ~HasDependencyMetadata(last.token))
        => /\ last.status = "NotRegistered"
           /\ last.value = Undefined
           /\ last.error = "Provided token: \"" \o toString(last.token)
                              \o "\" is not registered for dependency injection"
           /\ Len(EventsAt("return", 0)) = 0
           /\ registry = last.registry
           /\ singletons = last.singletons

\* C6 witness: under the definition with the fallback, get of an
\* undecorated class that was never assembled, in a registry holding other
\* entries.
C6_Witness ==
    /\ last.op = "get" /\ last.status = "NotRegistered"
    /\ impl = 2
    /\ last.token \in Classes
    /\ ~annotations[last.token].decorated
    /\ Len(last.registry) >= 1

\* The lists the annotations declare: what @assemble({deps}) was given,
\* the empty list for @assemble().
DeclaredDependencies(cls) ==
    IF annotations[cls].hasDeps THEN annotations[cls].deps ELSE << >>

NotRegisteredMessage(key) ==
    "Provided token: \"" \o toString(key) \o "\" is not registered for dependency injection"

\* C7: get(type) for a decorated class (with or without a deps list) that
\* has no entry registers a class entry for it on the fly, with exactly the
\* dependencies declared at annotation time, instead of failing as not
\* registered, and a get that returns constructed it on those dependencies.
C7_AnnotatedResolvable ==
    (/\ last.op = "get"
     /\ last.token \in Classes
     /\ annotations[last.token].decorated
     /\ ~Registered(last.registry, last.token))
        => /\ Len(registry) > Len(last.registry)
           /\ registry[Len(last.registry) + 1].type = last.token
           /\ registry[Len(last.registry) + 1].shape = "class"
           /\ dependenciesOf(registry[Len(last.registry) + 1])
                 = DeclaredDependencies(last.token)
           /\ ~(last.status = "NotRegistered"
                  /\ last.error = NotRegisteredMessage(last.token))
           /\ last.status = "return" =>
                 KeysOf(EventsAt("get", 1)) = DeclaredDependencies(last.token)

\* C8: with several entries under one key, get(key) resolves through the
\* first-registered one: what it returns is what the key stands for by the
\* first-registered entries, of the variant of the first-registered entry,
\* whatever was assembled for that key later.
C8_FirstRegisteredWins ==
    (last.op = "get" /\ last.status = "return") =>
        /\ Strip(last.value) = Denote(registry, last.token, Fuel)
        /\ last.value.tag =
              (CASE Earliest(registry, last.token).shape = "token" -> "value"
                 [] Earliest(registry, last.token).shape = "class" -> "instance"
                 [] OTHER -> "result")

\* C8 witness: a get returns for a key with two entries that differ, and
\* the key stands for something else by the later entry.
C8_Witness ==
    /\ last.op = "get" /\ last.status = "return"
    /\ \E i, j \in Entries(last.registry, last.token) :
          /\ i < j
          /\ last.registry[i] # last.registry[j]
          /\ Denote(<<last.registry[j]>> \o last.registry, last.token, Fuel)
                # Denote(last.registry, last.token, Fuel)

Throws(depth) == EventsAt("throw", depth)

\* C9: when a get of a declared dependency throws during a direct
\* get(key), get(key) throws the same error, the entry's constructor or
\* function is not invoked, and the singleton cache holds nothing for key.
C9_DependencyFailure ==
    (last.op = "get" /\ Len(Throws(1)) >= 1) =>
        /\ last.status # "return"
        /\ last.status \in {"NotRegistered", "RangeError"}
        /\ Len(Throws(0)) = 1
        /\ Len(EventsAt("return", 0)) = 0
        /\ Len(EventsAt("new", 0)) = 0
        /\ Len(EventsAt("call", 0)) = 0
        /\ ~Truthy(singletons[last.token])
        /\ last.value = Undefined

\* C9 witness: get(A) of a singleton A on [B, "t"]: B was constructed and
\* cached, then get("t") threw not-registered.
C9_Witness ==
    /\ last.op = "get" /\ last.token = "A"
    /\ last.status = "NotRegistered"
    /\ last.error = NotRegisteredMessage("t")
    /\ SingletonClass(Earliest(registry, "A"))
    /\ Len(EventsAt("return", 1)) = 1
    /\ Truthy(singletons["B"])
    /\ ~Truthy(last.singletons["B"])

\* C10: assemble(cls) with a bare class appends one class entry keyed by
\* cls, a default singleton, whose dependencies are the list in the class's
\* metadata at that moment, the empty list without one; it does not fail.
C10_BareClassAppends ==
    (last.op = "assemble" /\ last.item.typeof = "function") =>
        /\ last.status = "return"
        /\ Len(registry) = Len(last.registry) + 1
        /\ SubSeq(registry, 1, Len(last.registry)) = last.registry
        /\ registry[Len(registry)].type = last.item.ref
        /\ registry[Len(registry)].shape = "class"
        /\ registry[Len(registry)].ref = last.item.ref
        /\ registry[Len(registry)].isSingleton # "false"
        /\ dependenciesOf(registry[Len(registry)])
              = (IF HasDependencyMetadata(last.item.ref)
                 THEN metadata[last.item.ref].deps ELSE << >>)

\* C10 witness: a bare class whose metadata holds a dependency list is
\* assembled into a registry that already has an entry.
C10_Witness ==
    /\ last.op = "assemble" /\ last.item.typeof = "function"
    /\ HasDependencyMetadata(last.item.ref)
    /\ Len(last.registry) >= 1
    /\ registry[Len(registry)].dependencies = <<"B", "t">>

\* The nested and direct get calls of the last call's log.
Gets == {i \in 1..Len(last.log) : last.log[i].ev = "get"}

\* The frame of the get logged at i is still on the stack when j is logged.
StillOpen(i, j) ==
    \A n \in (i + 1)..(j - 1) :
        ~(/\ last.log[n].ev \in {"return", "throw"}
          /\ last.log[n].depth = last.log[i].depth)

\* The get logged at j is a get of the key of the get logged at i, made
\* while that one is still resolving its dependencies.
Reenters(i, j) ==
    /\ i < j
    /\ last.log[j].key = last.log[i].key
    /\ last.log[j].depth > last.log[i].depth
    /\ StillOpen(i, j)

\* C11: there is no cycle detection.  When a get(A) is reached again,
\* through declared dependencies, before the earlier get(A) has constructed
\* A, nothing stops the recursion but the call stack: the call ends in the
\* stack-exhaustion error, no frame from the nested get(A) outwards returns
\* a value, it is not the not-registered error, and no key on the cycle is
\* in the singleton cache before or after.
C11_NoCycleDetection ==
    last.op = "get" =>
        \A i, j \in Gets :
            Reenters(i, j) =>
                /\ last.status = "RangeError"
                /\ last.error = RangeErrorMsg
                /\ last.value = Undefined
                /\ \A n \in (j + 1)..Len(last.log) :
                      last.log[n].depth <= last.log[j].depth
                          => last.log[n].ev = "throw"
                /\ \A n \in i..j :
                      (n \in Gets /\ StillOpen(n, j))
                          => /\ ~Truthy(singletons[last.log[n].key])
                             /\ ~Truthy(last.singletons[last.log[n].key])

\* C11 witness: get(f) resolves B, which needs A, which needs B again: the
\* cycle is entered below the key asked for, and the call ends in the
\* stack-exhaustion error.
C11_Witness ==
    /\ last.op = "get" /\ last.token = "f"
    /\ last.status = "RangeError"
    /\ \E i, j \in Gets :
          /\ Reenters(i, j)
          /\ last.log[i].key = "B"
          /\ last.log[i].depth = 1
    /\ \E n \in Gets : last.log[n].key = "A"

\* C12: in every state, a key of the singleton cache is a class that has
\* an entry, its first-registered entry is a class entry whose isSingleton
\* is not false, and the cached value is an object constructed from that
\* entry: an instance of its class on what its dependencies stand for.  No
\* token and no function is ever a key of the cache.
C12_CacheHoldsSingletons ==
    \A k \in Injectable :
        Truthy(singletons[k]) =>
            /\ k \in Classes
            /\ Registered(registry, k)
            /\ SingletonClass(Earliest(registry, k))
            /\ singletons[k].tag = "instance"
            /\ singletons[k].of = Earliest(registry, k).ref
            /\ singletons[k].id < nextId
            /\ Strip(singletons[k]) = Denote(registry, k, Fuel)

\* C12 witness: the cache holds A and B, the cached A having been
\* constructed on the cached B and on the value of "t".
C12_Witness ==
    /\ Truthy(singletons["A"])
    /\ Truthy(singletons["B"])
    /\ Len(singletons["A"].args) = 2
    /\ singletons["A"].args[1] = singletons["B"]
    /\ singletons["A"].args[2].tag = "value"
    /\ ~Truthy(singletons["t"])

IsPrefix(a, b) == Len(a) <= Len(b) /\ SubSeq(b, 1, Len(a)) = a

\* C13: every assemble call returns and appends exactly one entry at the
\* end of the registry, keyed by the class, function or token of its
\* argument and holding the argument's fields, whether or not the key is
\* already registered and whether or not the declared dependencies are;
\* it leaves the singleton cache unchanged.  After any operation the
\* registry it started from is a prefix of the registry it leaves.
C13_AssembleAppendsOne ==
    /\ IsPrefix(last.registry, registry)
    /\ last.op = "assemble" =>
          /\ last.status = "return"
          /\ Len(registry) = Len(last.registry) + 1
          /\ registry[Len(registry)].type = last.item.ref
          /\ registry[Len(registry)].ref = last.item.ref
          /\ last.item.typeof = "object" =>
                /\ registry[Len(registry)].shape = last.item.shape
                /\ registry[Len(registry)].isSingleton = last.item.isSingleton
                /\ registry[Len(registry)].hasDeps = last.item.hasDeps
                /\ registry[Len(registry)].dependencies = last.item.dependencies
                /\ registry[Len(registry)].value = last.item.value
          /\ singletons = last.singletons
          /\ nextId = last.nextId

\* C13 witness: an entry is assembled for a key that already has one, with
\* a dependency no entry matches, while the cache holds an instance.
C13_Witness ==
    /\ last.op = "assemble"
    /\ Registered(last.registry, last.item.ref)
    /\ \E i \in 1..Len(last.item.dependencies) :
          ~Registered(registry, last.item.dependencies[i])
    /\ \E k \in Classes : Truthy(singletons[k])
    /\ registry[Len(registry)] # Earliest(registry, last.item.ref)

\* The positions of the entries the last call appended.
Appended == (Len(last.registry) + 1)..Len(registry)

\* C14: get(key) changes the registry only on the auto-registration path.
\* When key is a class whose metadata holds a dependency list and no entry
\* matches it, the call appends exactly one class entry keyed by key; when
\* key is a string token, a plain function or a key that has an entry, the
\* call appends no entry keyed by key; and whatever a call appends (for
\* key or for a dependency) is a class entry for a class with such
\* metadata that had no entry.
C14_GetAppendsOnlyOnFallback ==
    last.op = "get" =>
        /\ (/\ HasDependencyMetadata(last.token)
            /\ ~Registered(last.registry, last.token))
              => /\ Cardinality({i \in Appended : registry[i].type = last.token}) = 1
                 /\ registry[Len(last.registry) + 1].type = last.token
                 /\ registry[Len(last.registry) + 1].shape = "class"
        /\ (\/ last.token \in Tokens \cup Functions
            \/ Registered(last.registry, last.token))
              => \A i \in Appended : registry[i].type # last.token
        /\ \A i \in Appended :
              /\ registry[i].shape = "class"
              /\ HasDependencyMetadata(registry[i].type)
              /\ ~Registered(SubSeq(registry, 1, i - 1), registry[i].type)

\* A path of declared dependencies without a repeated key has at most this
\* many keys.
LongestPath == Cardinality(Injectable)

\* Every key reachable from key through declared dependencies has a
\* matching entry or is an annotated class, along paths of at most n keys
\* (so that no path comes back to a key on it).
RECURSIVE Resolvable(_, _, _)
Resolvable(reg, key, n) ==
    IF n = 0 THEN FALSE
    ELSE IF Registered(reg, key)
    THEN LET d == dependenciesOf(Earliest(reg, key))
         IN \A i \in 1..Len(d) : Resolvable(reg, d[i], n - 1)
    ELSE IF key \in Classes /\ annotations[key].decorated
    THEN LET d == DeclaredDependencies(key)
         IN \A i \in 1..Len(d) : Resolvable(reg, d[i], n - 1)
    ELSE FALSE

\* C15: dependencies are looked at only when get is called: whenever, at
\* the moment of a get(key), every key reachable through declared
\* dependencies has a matching entry or is an annotated class, get(key)
\* returns, in whatever order the entries were assembled.
C15_ResolvedAtGetTime ==
    (last.op = "get" /\ Resolvable(last.registry, last.token, LongestPath))
        => last.status = "return"

\* A singleton class entry is the first-registered entry of key and the
\* cache held an instance for key when the last call began.
CachedBefore(key) ==
    /\ Truthy(last.singletons[key])
    /\ Registered(last.registry, key)
    /\ SingletonClass(Earliest(last.registry, key))

\* C16: a get(type) that finds a cached instance for a singleton class
\* entry returns that instance at once: a direct call logs nothing but
\* the call and its return (no nested get, no constructor, no function)
\* and leaves the registry, the cache and the objects as they were; a
\* nested one is followed at once by its return of the cached instance.
C16_CachedSingletonReturned ==
    last.op = "get" =>
        /\ CachedBefore(last.token) =>
              /\ last.status = "return"
              /\ last.value = last.singletons[last.token]
              /\ last.log = <<Event("get", last.token, 0, Undefined),
                              Event("return", last.token, 0, last.value)>>
              /\ registry = last.registry
              /\ singletons = last.singletons
              /\ nextId = last.nextId
        /\ \A i \in Gets :
              CachedBefore(last.log[i].key) =>
                  /\ i < Len(last.log)
                  /\ last.log[i + 1] = Event("return", last.log[i].key, last.log[i].depth,
                                             last.singletons[last.log[i].key])

\* C16 witness: a direct get(A) returns the cached A, whose entry declares
\* two dependencies, without asking for either.
C16_Witness ==
    /\ last.op = "get" /\ last.token = "A"
    /\ CachedBefore("A")
    /\ Len(dependenciesOf(Earliest(registry, "A"))) = 2
    /\ Len(last.log) = 2
    /\ last.value.id < last.nextId

ThrowEvents == {i \in 1..Len(last.log) : last.log[i].ev = "throw"}

\* C17 as stated: a get that fails as not registered leaves the registry
\* and the singleton cache equal to what they were before the call.
C17_NoPartialState ==
    (last.op = "get" /\ last.status = "NotRegistered")
        => /\ registry = last.registry
           /\ singletons = last.singletons

\* C17 amended: a get that fails as not registered, directly or in a
\* dependency, leaves nothing behind for what failed: no entry is removed
\* or changed; no key whose get threw is in the cache, and nothing was
\* constructed or invoked for it.  What the call did complete before the
\* failure stays: a key the cache gained was constructed in the call and
\* its get returned, and the entries the registry gained are those of
\* annotated classes registered on the fly.
C17_FailureKeepsCompleted ==
    (last.op = "get" /\ last.status = "NotRegistered") =>
        /\ IsPrefix(last.registry, registry)
        /\ \A i \in Appended :
              /\ registry[i].shape = "class"
              /\ HasDependencyMetadata(registry[i].type)
        /\ \A n \in ThrowEvents :
              /\ ~Truthy(singletons[last.log[n].key])
              /\ \A m \in 1..Len(last.log) :
                    last.log[m].ev \in {"new", "call"}
                        => last.log[m].key # last.log[n].key
        /\ \A k \in Injectable :
              singletons[k] # last.singletons[k] =>
                  /\ ~Truthy(last.singletons[k])
                  /\ \E i \in News, j \in Returns :
                        /\ i < j
                        /\ last.log[i].key = k /\ last.log[i].value = singletons[k]
                        /\ last.log[j].key = k /\ last.log[j].value = singletons[k]

\* C17 witness: get(A) registers the annotated B on the fly, constructs
\* and caches it, and then fails because "t" has no entry: the registry
\* and the cache have both grown.
C17_Witness ==
    /\ last.op = "get" /\ last.token = "A"
    /\ last.status = "NotRegistered"
    /\ Len(registry) = Len(last.registry) + 1
    /\ registry[Len(registry)].type = "B"
    /\ Truthy(singletons["B"])
    /\ ~Truthy(last.singletons["B"])
    /\ ~Truthy(singletons["A"])

\* The container as the last call found it and as it left it.
Before ==
    [registry |-> last.registry, singletons |-> last.singletons,
     nextId |-> last.nextId, log |-> << >>]
After ==
    [registry |-> registry, singletons |-> singletons,
     nextId |-> nextId, log |-> << >>]

\* get(key) on container st fails as not registered.
FailsIn(st, key) == get(st, key, 0).status = "NotRegistered"

\* C18: a get(key) that failed as not registered fails the same way when
\* it is called again on the container it left, and a get of any key that
\* changed the registry or the cache (one that changed neither left the
\* container it found) leaves every key whose get would have failed as
\* not registered before it failing still: so without an assemble call in
\* between, every later get(key) fails as not registered again.
C18_FailsAgain ==
    last.op = "get" =>
        /\ last.status = "NotRegistered" =>
              \A r \in {get(After, last.token, 0)} :
                  r.status = "NotRegistered" /\ r.error = last.error
        /\ (registry # last.registry \/ singletons # last.singletons) =>
              \A k \in Injectable \ {last.token} :
                  FailsIn(Before, k) => FailsIn(After, k)

\* C18 witness (second definition, both classes annotated, nothing ever
\* assembled): the registry holds the entries an earlier get(A) registered
\* on the fly for A and B, the cache holds the B it constructed before it
\* failed on "t", and get(A) has just failed as not registered again.
C18_Witness ==
    /\ impl = 2
    /\ last.op = "get" /\ last.token = "A"
    /\ last.status = "NotRegistered"
    /\ last.error = NotRegisteredMessage("t")
    /\ Len(last.registry) = 2
    /\ last.registry[1].type = "A" /\ last.registry[1].isSingleton = "absent"
    /\ last.registry[2].type = "B" /\ last.registry[2].dependencies = << >>
    /\ Truthy(last.singletons["B"])
    /\ registry = last.registry

\* The dependencies a get of key maps in registry reg: those of its
\* first-registered entry, those of its metadata where the fallback
\* registers it, none where the get throws.
DeclaredAt(reg, key) ==
    IF Registered(reg, key) THEN dependenciesOf(Earliest(reg, key))
    ELSE IF impl = 2 /\ HasDependencyMetadata(key) THEN metadata[key].deps
    ELSE << >>

\* No path of declared dependencies from key has more than n keys: with
\* n = LongestPath, the graph reachable from key is finite and acyclic.
RECURSIVE Acyclic(_, _, _)
Acyclic(reg, key, n) ==
    IF n = 0 THEN FALSE
    ELSE \A d \in {DeclaredAt(reg, key)} :
            \A i \in 1..Len(d) : Acyclic(reg, d[i], n - 1)

\* The number of nodes of the unfolding of the graph from the keys of a
\* list, down to n levels.
RECURSIVE Unfolding(_, _, _)
Unfolding(reg, keys, n) ==
    IF n = 0 \/ keys = << >> THEN 0
    ELSE 1 + Unfolding(reg, DeclaredAt(reg, Head(keys)), n - 1)
           + Unfolding(reg, Tail(keys), n)

\* C19: when the graph of declared dependencies reachable from key in the
\* registry is finite and acyclic, get(key) ends by returning a value or
\* by the not-registered error, never by exhausting the stack; it makes
\* no more get calls than the unfolding of the graph has nodes, nested no
\* deeper than the longest path.
C19_AcyclicTerminates ==
    (last.op = "get" /\ Acyclic(last.registry, last.token, LongestPath)) =>
        /\ last.status \in {"return", "NotRegistered"}
        /\ Cardinality(Gets) <= Unfolding(last.registry, <<last.token>>, LongestPath)
        /\ \A i \in 1..Len(last.log) : last.log[i].depth < LongestPath
        /\ last.log[Len(last.log)].depth = 0
        /\ last.log[Len(last.log)].ev \in {"return", "throw"}

\* C19 witness: get(A) with nothing cached makes the four get calls of the
\* unfolding A -> (B -> "t"), "t", two levels deep, and returns.
C19_Witness ==
    /\ last.op = "get" /\ last.token = "A" /\ last.status = "return"
    /\ Acyclic(last.registry, "A", LongestPath)
    /\ Unfolding(last.registry, <<"A">>, LongestPath) = 4
    /\ Cardinality(Gets) = 4
    /\ Len(EventsAt("get", 2)) = 1

\* The constructor invocations of class k in the last call.
NewsOf(k) == {i \in News : last.log[i].key = k}

\* C20: the constructor of a singleton class entry runs at most once over
\* the life of the container.  For a class whose first-registered entry is
\* a singleton class entry (the one entry through which the class is ever
\* constructed): a call constructs it at most once, however often the call
\* reaches it; what it constructed is in the cache when the call ends,
\* whether the call returned or threw; and once the cache holds an
\* instance no call constructs the class again or replaces the instance.
C20_SingletonConstructedOnce ==
    \A k \in Classes :
        (Registered(registry, k) /\ SingletonClass(Earliest(registry, k))) =>
            \A news \in {NewsOf(k)} :
                /\ Cardinality(news) <= 1
                /\ \A i \in news :
                      /\ singletons[k] = last.log[i].value
                      /\ last.log[i].value.id >= last.nextId
                /\ Truthy(last.singletons[k]) =>
                      /\ news = {}
                      /\ singletons[k] = last.singletons[k]

\* C20 witness: get(f) with f on [B, B] reaches the singleton B twice in
\* one call, constructs it the first time and hands f the same object
\* twice.
C20_Witness ==
    /\ last.op = "get" /\ last.token = "f" /\ last.status = "return"
    /\ SingletonClass(Earliest(registry, "B"))
    /\ Cardinality(NewsOf("B")) = 1
    /\ Len(EventsAt("get", 1)) = 2
    /\ Len(last.value.args) = 2
    /\ last.value.args[1] = last.value.args[2]
    /\ last.value.args[1] = singletons["B"]

====
